---- MODULE Spec2Model ----
(***************************************************************************)
(* A state-machine model of the effector feature-effect objects            *)
(* (GlobalEffect, RHALE, SHAPDependence) and of the helper functions they  *)
(* call.  A method call is one action; the action records what the call    *)
(* did (exception raised, fits performed, value returned) in `last`.       *)
(*                                                                         *)
(* Python values that may have several types are records [t, v]: t is the  *)
(* Python type name and v the value.                                       *)
(***************************************************************************)
EXTENDS Integers, Sequences, FiniteSets, TLC

VARIABLES
    cls,            \* "RHALE" or "SHAPDependence": the class of the object
    X,              \* the dataset handed to the constructor (rows of D values)
    data,           \* self.data: the kept rows, as indices into X
    axis_limits,    \* self.axis_limits: <<lower, upper>>, each one value per feature
    model_jac,      \* self.model_jac (RHALE): "None" or "callable"
    data_effect,    \* self.data_effect (RHALE): [none, rows]; rows are indices into X
    jac_calls,      \* number of Jacobian evaluations made so far (analytic or numeric)
    is_fitted,      \* self.is_fitted: feature -> BOOLEAN
    method_args,    \* self.method_args: "feature_s" -> [centering]
    feature_effect, \* self.feature_effect: "feature_s" -> effect record
    binning,        \* the binning_method argument this caller hands to RHALE.fit
    ctor,           \* the constructor call: its arguments and its outcome
    ale_params,     \* self.ale_params of a legacy ALE object: "feature_s" -> parameters
    last            \* the last method call: its arguments and its outcome

vars == <<cls, X, data, axis_limits, model_jac, data_effect, jac_calls,
          is_fitted, method_args, feature_effect, binning, ctor, ale_params, last>>

-----------------------------------------------------------------------------
(* Bounds of the model *)

\* axis limits and feature values range over 0..MaxVal
MaxVal == 2
\* longest feature list handed to fit
MaxFeatLen == 2

Vals == 0..MaxVal

\* the datasets handed to the constructor: N rows of D feature values
Datasets ==
    { << <<0, 1>>, <<2, 1>> >>,
      << <<1, 0>>, <<1, 2>> >> }

-----------------------------------------------------------------------------
(* Python values *)

B(b) == [t |-> "bool", v |-> b]
S(s) == [t |-> "str", v |-> s]
I(i) == [t |-> "int", v |-> i]
L(l) == [t |-> "list", v |-> l]
None == [t |-> "NoneType", v |-> "None"]

\* a key a dict does not hold, an attribute an object does not have
Missing == [t |-> "missing", v |-> 0]

PyFalse == B(FALSE)
PyTrue == B(TRUE)

\* Python ==
PyEq(a, b) == a.t = b.t /\ a.v = b.v

\* x is False
IsFalse(x) == x.t = "bool" /\ x.v = FALSE

\* x is True
IsTrue(x) == x.t = "bool" /\ x.v = TRUE

Min(S1) == CHOOSE m \in S1 : \A y \in S1 : m <= y
Max(S1) == CHOOSE m \in S1 : \A y \in S1 : m >= y

Range(f) == {f[i] : i \in DOMAIN f}

\* number of columns / rows of a dataset
Dim(ds) == Len(ds[1])
NRows(ds) == Len(ds)

\* the feature indices 0..D-1 of the object
Features == 0 .. (Dim(X) - 1)

\* data[i, s] for a row index i into X
At(ds, i, s) == ds[i][s + 1]

\* keep the entries of a sequence that satisfy Test
RECURSIVE SelectRows(_, _, _, _, _)
SelectRows(ds, rows, s, lo, hi) ==
    IF rows = <<>> THEN <<>>
    ELSE LET r == Head(rows)
             rest == SelectRows(ds, Tail(rows), s, lo, hi)
         IN IF At(ds, r, s) >= lo /\ At(ds, r, s) <= hi
            THEN <<r>> \o rest ELSE rest

-----------------------------------------------------------------------------
(* helpers *)

\* prep_features without the wrapping of an integer into a list
prep_features_unwrapped(feat, D) ==
    IF feat.t \notin {"list", "str", "int"}
    THEN [exc |-> "AssertionError", val |-> feat]
    ELSE IF feat.t = "str" /\ feat.v = "all"
    THEN [exc |-> "none", val |-> L([i \in 1..D |-> I(i - 1)])]
    ELSE [exc |-> "none", val |-> feat]

\* helpers.prep_features: [exc, val]
prep_features(feat, D) ==
    IF feat.t \notin {"list", "str", "int"}
    THEN [exc |-> "AssertionError", val |-> feat]
    ELSE IF feat.t = "str" /\ feat.v = "all"
    THEN [exc |-> "none", val |-> L([i \in 1..D |-> I(i - 1)])]
    ELSE IF feat.t = "int"
    THEN [exc |-> "none", val |-> L(<<feat>>)]
    ELSE [exc |-> "none", val |-> feat]

\* prep_centering without the check of a string against the two modes
prep_centering_any_string(centering) ==
    IF centering.t \notin {"bool", "str"}
    THEN [exc |-> "AssertionError", val |-> centering]
    ELSE IF IsTrue(centering)
    THEN [exc |-> "none", val |-> S("zero_integral")]
    ELSE [exc |-> "none", val |-> centering]

\* helpers.prep_centering: [exc, val]
prep_centering(centering) ==
    IF centering.t \notin {"bool", "str"}
    THEN [exc |-> "AssertionError", val |-> centering]
    ELSE IF centering.t = "str" /\ centering.v \notin {"zero_start", "zero_integral"}
    THEN [exc |-> "AssertionError", val |-> centering]
    ELSE IF IsTrue(centering)
    THEN [exc |-> "none", val |-> S("zero_integral")]
    ELSE [exc |-> "none", val |-> centering]

\* helpers.axis_limits_from_data: per-column minimum and maximum of the rows
axis_limits_from_data(ds, rows) ==
    << [d \in 1..Dim(ds) |-> Min({ds[r][d] : r \in Range(rows)})],
       [d \in 1..Dim(ds) |-> Max({ds[r][d] : r \in Range(rows)})] >>

\* helpers.prep_nof_instances(n, N) for n = "all": every row, in order
prep_nof_instances_all(N) == [i \in 1..N |-> i]

\* helpers.EMPTY_SYMBOL: the marker of a norm constant that was not computed,
\* distinct from every number
EMPTY_SYMBOL == [t |-> "empty", v |-> 0]

-----------------------------------------------------------------------------
(* Construction *)

Unset == "unset"

\* an ndarray argument holding v, and the model callable
Arr(v) == [t |-> "ndarray", v |-> v]
Fn == [t |-> "function", v |-> "f"]

\* the object a constructor that raised leaves behind: nothing usable
NoObject ==
    [data |-> Unset, rows |-> Unset, model |-> Unset, axis_limits |-> Unset,
     is_fitted |-> Unset, method_args |-> Unset, feature_effect |-> Unset]

\* GlobalEffect.__init__ with its eight parameters: [exc, obj]
GlobalEffect_init(method_name, data_p, model_p, nof_instances, axis_limits_p, avg_output, feature_names, target_name) ==
    IF data_p.t # "ndarray"
    THEN \* data.ndim on a value that is no array
         [exc |-> "AttributeError", obj |-> NoObject]
    ELSE LET rows == prep_nof_instances_all(NRows(data_p.v))
             lims == IF axis_limits_p.t = "NoneType"
                     THEN axis_limits_from_data(data_p.v, rows)
                     ELSE axis_limits_p.v
         IN [exc |-> "none",
             obj |-> [data |-> data_p.v,
                      rows |-> rows,
                      model |-> model_p,
                      axis_limits |-> lims,
                      is_fitted |-> [s \in 0 .. (Dim(data_p.v) - 1) |-> FALSE],
                      method_args |-> <<>>,
                      feature_effect |-> <<>>]]

\* RHALE.__init__ / SHAPDependence.__init__: the call of the base constructor,
\* six positional arguments
SubclassInit(data_p, model_p, axis_limits_p, avg_output, feature_names, target_name) ==
    GlobalEffect_init(data_p, model_p, axis_limits_p, avg_output,
                      feature_names, target_name, None, None)

\* the axis_limits arguments tried: None, or the same <<lower, upper>> for every
\* feature, lower < upper (the inferred limits of a constant column are equal)
AxisLimitArgs(ds) ==
    {None} \cup
    { Arr(<< [d \in 1..Dim(ds) |-> p[1]], [d \in 1..Dim(ds) |-> p[2]] >>) :
        p \in {q \in Vals \X Vals : q[1] < q[2]} }

\* the data_effect arguments tried (RHALE): None, or the effects of every row
DataEffectArgs(ds) == {None, Arr(prep_nof_instances_all(NRows(ds)))}

ModelJacArgs == {None, Fn}

\* the binning strategies tried
BinningMethods == {"greedy", "fixed"}

CtorArgs ==
    { [cls |-> c, data |-> Arr(ds), model |-> Fn, axis_limits |-> al,
       model_jac |-> mj, data_effect |-> de, binning |-> bmeth] :
        c \in {"RHALE", "SHAPDependence"}, ds \in Datasets,
        al \in UNION {AxisLimitArgs(d2) : d2 \in Datasets},
        mj \in ModelJacArgs,
        de \in UNION {DataEffectArgs(d2) : d2 \in Datasets},
        bmeth \in BinningMethods }

\* the constructor calls made: well-shaped arguments; SHAPDependence takes no
\* model_jac / data_effect
GoodCtorArgs ==
    { a \in CtorArgs :
        /\ a.axis_limits \in AxisLimitArgs(a.data.v)
        /\ a.data_effect \in DataEffectArgs(a.data.v)
        /\ (a.cls = "SHAPDependence" =>
               a.model_jac = None /\ a.data_effect = None /\ a.binning = "greedy")
        /\ (a.data_effect # None => a.model_jac = None) }

\* the record of a call: its arguments (op, feat, centering, x), what it did (exc:
\* the exception raised or "none"; fits: the features _fit_feature was called for;
\* failpos: the position in the feature list at which fit raised; msg: the message
\* of a binning failure; ret: the value returned), whether it repeats the call
\* before it (rep, with prev_exc what that call raised) and the object's fields
\* on entry (pre)
NoCall ==
    [op |-> "none", feat |-> None, centering |-> None, exc |-> "none",
     fits |-> <<>>, failpos |-> 0, msg |-> <<>>, ret |-> None, x |-> 0,
     rep |-> 0, prev_exc |-> "none", pre |-> <<>>]

\* the object state after the base constructor has run on properly bound arguments
InitObject(a) ==
    LET r == GlobalEffect_init(S(a.cls), a.data, a.model, S("all"), a.axis_limits,
                               None, None, None)
    IN /\ r.exc = "none"
       /\ cls = a.cls
       /\ X = r.obj.data
       /\ data = r.obj.rows
       /\ axis_limits = r.obj.axis_limits
       /\ model_jac = a.model_jac
       /\ data_effect = a.data_effect
       /\ jac_calls = 0
       /\ binning = a.binning
       /\ is_fitted = r.obj.is_fitted
       /\ method_args = r.obj.method_args
       /\ feature_effect = r.obj.feature_effect
       /\ ctor = [args |-> a, state |-> "returned", exc |-> "none", obj |-> NoObject]
       /\ ale_params = Missing
       /\ last = NoCall

Init == \E a \in GoodCtorArgs : InitObject(a)

\* the constructor has been called and has not run yet
InitCtor ==
    \E a \in GoodCtorArgs :
        /\ cls = a.cls
        /\ X = a.data.v
        /\ data = Unset /\ axis_limits = Unset
        /\ model_jac = Unset /\ data_effect = Unset
        /\ jac_calls = 0
        /\ binning = a.binning
        /\ is_fitted = Unset /\ method_args = Unset /\ feature_effect = Unset
        /\ ctor = [args |-> a, state |-> "called", exc |-> "none", obj |-> NoObject]
        /\ ale_params = Missing
        /\ last = NoCall

\* RHALE(data, model, ...) / SHAPDependence(data, model, ...)
Construct ==
    /\ ctor.state = "called"
    /\ LET a == ctor.args
           r == SubclassInit(a.data, a.model, a.axis_limits, None, None, None)
       IN /\ ctor' = [ctor EXCEPT !.state = IF r.exc = "none" THEN "returned" ELSE "raised",
                                  !.exc = r.exc, !.obj = r.obj]
          \* RHALE stores model_jac and data_effect before the base constructor runs
          /\ model_jac' = IF a.cls = "RHALE" THEN a.model_jac ELSE model_jac
          /\ data_effect' = IF a.cls = "RHALE" THEN a.data_effect ELSE data_effect
          /\ data' = r.obj.rows
          /\ axis_limits' = r.obj.axis_limits
          /\ is_fitted' = r.obj.is_fitted
          /\ method_args' = r.obj.method_args
          /\ feature_effect' = r.obj.feature_effect
    /\ UNCHANGED <<cls, X, jac_calls, binning, last, ale_params>>

NextCtor == Construct

SpecCtor == InitCtor /\ [][NextCtor]_vars

-----------------------------------------------------------------------------
(* The mutable part of an object, threaded through the code of a call *)

Obj ==
    [data |-> data, data_effect |-> data_effect, jac_calls |-> jac_calls,
     is_fitted |-> is_fitted, method_args |-> method_args,
     feature_effect |-> feature_effect]

\* the object's fields become those of o
Becomes(o) ==
    /\ data' = o.data
    /\ data_effect' = o.data_effect
    /\ jac_calls' = o.jac_calls
    /\ is_fitted' = o.is_fitted
    /\ method_args' = o.method_args
    /\ feature_effect' = o.feature_effect

\* the record of a call made now
Called(op, f, c, x) ==
    [NoCall EXCEPT !.op = op, !.feat = f, !.centering = c, !.x = x,
                   !.rep = IF last.op = "none" THEN 0 ELSE 1,
                   !.prev_exc = last.exc,
                   !.pre = Obj]

\* d[key] = value on a dict
Put(d, key, value) == [k \in (DOMAIN d) \cup {key} |-> IF k = key THEN value ELSE d[k]]

\* what iterating over a prepared feature selector yields
Elements(val) ==
    IF val.t = "list" THEN val.v
    ELSE \* a string is iterated character by character
         IF val.v = "bogus"
         THEN <<S("b"), S("o"), S("g"), S("u"), S("s")>>
         ELSE <<>>

\* e can index a column of the data
IsColumn(e) == e.t = "int" /\ e.v \in Features

-----------------------------------------------------------------------------
(* GlobalEffect.refit *)

\* GlobalEffect.refit(feature, centering): [exc, ret]
refit(o, feature, centering) ==
    IF ~o.is_fitted[feature]
    THEN [exc |-> "none", ret |-> PyTrue]
    ELSE IF ~IsFalse(centering)
    THEN IF feature \notin DOMAIN o.method_args
         THEN [exc |-> "KeyError", ret |-> None]
         ELSE IF ~PyEq(o.method_args[feature].centering, centering)
         THEN [exc |-> "none", ret |-> PyTrue]
         ELSE [exc |-> "none", ret |-> PyFalse]
    ELSE [exc |-> "none", ret |-> PyFalse]

\* the centering arguments tried
CenteringArgs == {PyFalse, PyTrue, S("zero_integral"), S("zero_start"), S("bogus")}
ValidCentering == {PyFalse, PyTrue, S("zero_integral"), S("zero_start")}

\* A call is made when the record of the previous call has been cleared, or it is
\* an eval that repeats the previous eval with the same arguments
CanCall(op, f, c, x) ==
    /\ ctor.state = "returned"
    /\ \/ last.op = "none"
       \/ /\ op = "eval" /\ last.op = op
          /\ PyEq(last.feat, f) /\ PyEq(last.centering, c) /\ last.x = x

\* the caller is done with the outcome of the last call
Forget ==
    /\ last.op # "none"
    /\ last' = NoCall
    /\ UNCHANGED <<cls, X, data, axis_limits, model_jac, data_effect, jac_calls,
                   is_fitted, method_args, feature_effect, binning, ctor, ale_params>>

Refit ==
    /\ \E s \in Features, c \in ValidCentering :
         LET r == refit(Obj, s, c)
         IN /\ CanCall("refit", I(s), c, 0)
            /\ last' = [Called("refit", I(s), c, 0) EXCEPT !.exc = r.exc, !.ret = r.ret]
    /\ UNCHANGED <<cls, X, data, axis_limits, model_jac, data_effect, jac_calls,
                   is_fitted, method_args, feature_effect, binning, ctor, ale_params>>

-----------------------------------------------------------------------------
(* RHALE *)

\* compile without the "is None" guards: the local effects are computed on every
\* call.  C5 tells this variant from the code.
compile_unguarded(o) ==
    [o EXCEPT !.data_effect = Arr(o.data), !.jac_calls = @ + 1]

\* RHALE.compile
compile(o) ==
    IF o.data_effect.t = "NoneType" /\ model_jac.t # "NoneType"
    THEN \* self.model_jac(self.data)
         [o EXCEPT !.data_effect = Arr(o.data), !.jac_calls = @ + 1]
    ELSE IF o.data_effect.t = "NoneType" /\ model_jac.t = "NoneType"
    THEN \* utils.compute_jacobian_numerically(self.model, self.data)
         [o EXCEPT !.data_effect = Arr(o.data), !.jac_calls = @ + 1]
    ELSE o

\* the class name of the object bm.find_limits returns for a strategy
BinName(binning_method) == IF binning_method = "greedy" THEN "Greedy" ELSE "Fixed"

\* arr[mask] for a boolean mask that is True everywhere: numpy refuses a mask whose
\* length is not that of arr
MaskAll(arr, masklen) ==
    IF Len(arr) # masklen
    THEN [exc |-> "IndexError", val |-> <<>>]
    ELSE [exc |-> "none", val |-> arr]

\* RHALE._fit_feature(feature, binning_method); limits_ok is whether
\* bm.find_limits found bins: [exc, o, ret, msg]
RHALE_fit_feature(o, feature, binning_method, limits_ok) ==
    LET o1 == IF o.data_effect.t = "NoneType" THEN compile(o) ELSE o
    IN IF ~IsColumn(feature)
       THEN [exc |-> "IndexError", o |-> o1, ret |-> <<>>, msg |-> <<>>]
       ELSE
       LET s == feature.v
           kept == SelectRows(X, SelectRows(X, o1.data, s, axis_limits[1][s + 1], MaxVal),
                              s, 0, axis_limits[2][s + 1])
           o2 == [o1 EXCEPT !.data = kept]
           \* ind is computed on the new self.data: True everywhere
           d == MaskAll(o2.data, Len(o2.data))
           de == MaskAll(o2.data_effect.v, Len(o2.data))
       IN IF de.exc # "none"
          THEN [exc |-> de.exc, o |-> o2, ret |-> <<>>, msg |-> <<>>]
          ELSE IF ~limits_ok
          THEN [exc |-> "AssertionError", o |-> o2, ret |-> <<>>,
                msg |-> <<"feature", s + 1, "binning strategy", BinName(binning_method)>>]
          ELSE [exc |-> "none", o |-> o2,
                ret |-> [rows |-> d.val, effect_rows |-> de.val,
                         alg_params |-> binning_method],
                msg |-> <<>>]

\* the loop of RHALE.fit over the features from position i on:
\* [exc, o, fits, failpos, msg]
RECURSIVE RHALE_fit_loop(_, _, _, _, _, _, _)
\* the loop with the fitted flag and the method-args entry set before _fit_feature
\* is called instead of after it.  C7 tells this variant from the code.
RHALE_fit_loop_marks_first(o, feats, i, binning_method, centering, failat, fits) ==
    IF i > Len(feats)
    THEN [exc |-> "none", o |-> o, fits |-> fits, failpos |-> 0, msg |-> <<>>]
    ELSE IF ~IsColumn(feats[i])
    THEN [exc |-> "IndexError", o |-> o, fits |-> Append(fits, feats[i]),
          failpos |-> i, msg |-> <<>>]
    ELSE LET s == feats[i].v
             o0 == [o EXCEPT !.is_fitted[s] = TRUE,
                             !.method_args = Put(@, s, [centering |-> centering])]
             r == RHALE_fit_feature(o0, feats[i], binning_method, i # failat)
             tried == Append(fits, feats[i])
         IN IF r.exc # "none"
            THEN [exc |-> r.exc, o |-> r.o, fits |-> tried, failpos |-> i, msg |-> r.msg]
            ELSE IF ~IsFalse(centering)
            THEN [exc |-> "AttributeError",
                  o |-> [r.o EXCEPT !.feature_effect = Put(@, s, r.ret)],
                  fits |-> tried, failpos |-> i, msg |-> <<>>]
            ELSE RHALE_fit_loop([r.o EXCEPT !.feature_effect = Put(@, s, r.ret)],
                                feats, i + 1, binning_method, centering, failat, tried)

RHALE_fit_loop(o, feats, i, binning_method, centering, failat, fits) ==
    IF i > Len(feats)
    THEN [exc |-> "none", o |-> o, fits |-> fits, failpos |-> 0, msg |-> <<>>]
    ELSE LET r == RHALE_fit_feature(o, feats[i], binning_method, i # failat)
             tried == Append(fits, feats[i])
         IN IF r.exc # "none"
            THEN [exc |-> r.exc, o |-> r.o, fits |-> tried, failpos |-> i, msg |-> r.msg]
            ELSE
            LET s == feats[i].v
                o1 == [r.o EXCEPT !.feature_effect = Put(@, s, r.ret)]
            IN IF ~IsFalse(centering)
               THEN \* self._compute_norm_const, self.norm_const: RHALE has neither
                    [exc |-> "AttributeError", o |-> o1, fits |-> tried,
                     failpos |-> i, msg |-> <<>>]
               ELSE
               LET o2 == [o1 EXCEPT !.is_fitted[s] = TRUE,
                                    !.method_args = Put(@, s, [centering |-> centering])]
               IN RHALE_fit_loop(o2, feats, i + 1, binning_method, centering, failat, tried)

\* RHALE.fit(features, binning_method, centering): [exc, o, fits, failpos, msg]
RHALE_fit(o, features, binning_method, centering, failat) ==
    LET pf == prep_features(features, Dim(X))
        pc == prep_centering(centering)
    IN IF pf.exc # "none"
       THEN [exc |-> pf.exc, o |-> o, fits |-> <<>>, failpos |-> 0, msg |-> <<>>]
       ELSE IF pc.exc # "none"
       THEN [exc |-> pc.exc, o |-> o, fits |-> <<>>, failpos |-> 0, msg |-> <<>>]
       ELSE RHALE_fit_loop(o, Elements(pf.val), 1, binning_method, pc.val, failat, <<>>)

\* the sequences over set S1 of length at most n
SeqsUpTo(S1, n) == UNION {[1..k -> S1] : k \in 0..n}

\* the features arguments tried
FeatureArgs ==
    {S("all"), S("bogus"), None}
    \cup {I(s) : s \in Features}
    \cup {L(l) : l \in SeqsUpTo({I(s) : s \in Features}, MaxFeatLen)}

\* the outcomes of find_limits over the iterations of one fit call: the iteration at
\* which it returns the failure marker (0: at none)
BinOutcomes(features) ==
    LET pf == prep_features(features, Dim(X))
    IN IF pf.exc # "none" \/ pf.val.t # "list" THEN {0} ELSE 0 .. Len(pf.val.v)

RHALECompile ==
    /\ cls = "RHALE"
    /\ CanCall("compile", None, None, 0)
    /\ Becomes(compile(Obj))
    /\ last' = Called("compile", None, None, 0)
    /\ UNCHANGED <<cls, X, axis_limits, model_jac, binning, ctor, ale_params>>

RHALEFit ==
    /\ cls = "RHALE"
    /\ \E f \in FeatureArgs, c \in CenteringArgs :
       \E failat \in BinOutcomes(f) :
         LET r == RHALE_fit(Obj, f, binning, c, failat)
         IN /\ CanCall("fit", f, c, 0)
            /\ Becomes(r.o)
            /\ last' = [Called("fit", f, c, 0) EXCEPT !.exc = r.exc, !.fits = r.fits,
                                                      !.failpos = r.failpos,
                                                      !.msg = r.msg]
    /\ UNCHANGED <<cls, X, axis_limits, model_jac, binning, ctor, ale_params>>

\* GlobalEffect.eval, which RHALE inherits: [exc]
GlobalEffect_eval(o, feature, xs, centering) == [exc |-> "NotImplementedError"]

RHALEEval ==
    /\ cls = "RHALE"
    /\ \E s \in Features, c \in CenteringArgs, x \in Vals :
         LET r == GlobalEffect_eval(Obj, s, x, c)
         IN /\ CanCall("eval", I(s), c, x)
            /\ last' = [Called("eval", I(s), c, x) EXCEPT !.exc = r.exc]
    /\ UNCHANGED <<cls, X, data, axis_limits, model_jac, data_effect, jac_calls,
                   is_fitted, method_args, feature_effect, binning, ctor, ale_params>>

\* RHALE.plot(feature, centering=...): [exc, o]
RHALE_plot(o, feature, centering) ==
    LET pc == prep_centering(centering)
    IN IF pc.exc # "none"
       THEN [exc |-> pc.exc, o |-> o]
       ELSE \* the hack to fit the feature: self.eval at the lower axis limit
            LET e == GlobalEffect_eval(o, feature, axis_limits[1][feature + 1], pc.val)
            IN IF e.exc # "none"
               THEN [exc |-> e.exc, o |-> o]
               ELSE IF feature \notin DOMAIN o.feature_effect
               THEN [exc |-> "KeyError", o |-> o]
               ELSE [exc |-> "none", o |-> o]

RHALEPlot ==
    /\ cls = "RHALE"
    /\ \E s \in Features, c \in CenteringArgs :
         LET r == RHALE_plot(Obj, s, c)
         IN /\ CanCall("plot", I(s), c, 0)
            /\ Becomes(r.o)
            /\ last' = [Called("plot", I(s), c, 0) EXCEPT !.exc = r.exc]
    /\ UNCHANGED <<cls, X, axis_limits, model_jac, binning, ctor, ale_params>>

-----------------------------------------------------------------------------
(* SHAPDependence *)

\* floating-point values: numbers, and the nan of 0.0 / 0.0
Num(i) == [t |-> "float", v |-> i]
NaN == [t |-> "nan", v |-> 0]

Minus(a, b) == IF a.t = "float" /\ b.t = "float" THEN Num(a.v - b.v) ELSE NaN

\* The black box is the linear model of the walkthrough, y = 7 x0 - 3 x1 + 4 x2.
\* The SHAP value of feature s at a point is then w_s (x_s - mean of x_s over the
\* rows explained), and the spline through these values is that line.
ModelWeights == <<7, 0 - 3, 4>>

RECURSIVE SumOf(_)
SumOf(seq) == IF seq = <<>> THEN 0 ELSE Head(seq) + SumOf(Tail(seq))

\* np.argsort followed by indexing: the values in increasing order
RECURSIVE Sorted(_)
SortInsert(v, seq) ==
    LET k == Cardinality({i \in DOMAIN seq : seq[i] <= v})
    IN SubSeq(seq, 1, k) \o <<v>> \o SubSeq(seq, k + 1, Len(seq))
Sorted(seq) == IF seq = <<>> THEN <<>> ELSE SortInsert(Head(seq), Sorted(Tail(seq)))

\* spline_mean(x) of an effect record, in units of 1 / (2 * number of rows fitted)
spline_mean(rec, x) == Num(2 * rec.w * (Len(rec.xx) * x - SumOf(rec.xx)))

\* points_for_fitting_spline: the default of fit, and a value below the row count
DefaultPoints == 100
SmallPoints == 1

\* helpers.prep_nof_instances(n, N) for an integer n: every row when n >= N,
\* otherwise n rows drawn at random, here the ones at positions pick
prep_nof_instances(n, rows, pick) ==
    IF n >= Len(rows) THEN rows
    ELSE [i \in 1..n |-> rows[((pick + i - 2) % Len(rows)) + 1]]

\* the norm constant _fit_feature computes for the sorted values xx
SHAP_norm_const(rec0, xx, centering) ==
    IF PyEq(centering, S("zero_integral"))
    THEN \* np.trapz(y_norm, x_norm) / (xx[-1] - xx[0])
         IF xx[Len(xx)] = xx[1] THEN NaN
         ELSE Num((spline_mean(rec0, xx[1]).v + spline_mean(rec0, xx[Len(xx)]).v) \div 2)
    ELSE IF PyEq(centering, S("zero_start"))
    THEN spline_mean(rec0, xx[1])
    ELSE EMPTY_SYMBOL

\* the effect record fitted to the sorted values xx of the rows used
SHAP_record(s, used, xx, centering) ==
    [xx |-> xx, w |-> ModelWeights[s + 1], rows |-> used,
     norm_const |-> SHAP_norm_const([xx |-> xx, w |-> ModelWeights[s + 1]], xx, centering)]

\* the part of _fit_feature that follows the choice of the rows
SHAP_fit_rows(s, used, centering) ==
    IF used = <<>>
    THEN \* the explainer and the spline refuse an empty sample
         [exc |-> "ValueError", ret |-> <<>>]
    ELSE [exc |-> "none",
          ret |-> SHAP_record(s, used, Sorted([i \in DOMAIN used |-> At(X, used[i], s)]),
                              centering)]

\* SHAPDependence._fit_feature(feature, centering, points_for_fitting_spline,
\* points_used_for_centering): [exc, ret]
SHAP_fit_feature(o, feature, centering, points, pick) ==
    IF ~IsColumn(feature)
    THEN [exc |-> "IndexError", ret |-> <<>>]
    ELSE \* drop points outside of limits: only the lower limit is applied
         SHAP_fit_rows(feature.v,
                       prep_nof_instances(points,
                           SelectRows(X, o.data, feature.v,
                                      axis_limits[1][feature.v + 1], MaxVal),
                           pick),
                       centering)

\* the loop of SHAPDependence.fit from position i on: [exc, o, fits, failpos, msg]
RECURSIVE SHAP_fit_loop(_, _, _, _, _, _, _)

\* one iteration, r being what _fit_feature did
SHAP_fit_step(o, feats, i, centering, points, pick, fits, r) ==
    IF r.exc # "none"
    THEN [exc |-> r.exc, o |-> o, fits |-> Append(fits, feats[i]), failpos |-> i,
          msg |-> <<>>]
    ELSE SHAP_fit_loop([o EXCEPT !.feature_effect = Put(@, feats[i].v, r.ret),
                                 !.is_fitted[feats[i].v] = TRUE],
                       feats, i + 1, centering, points, pick, Append(fits, feats[i]))

SHAP_fit_loop(o, feats, i, centering, points, pick, fits) ==
    IF i > Len(feats)
    THEN [exc |-> "none", o |-> o, fits |-> fits, failpos |-> 0, msg |-> <<>>]
    ELSE SHAP_fit_step(o, feats, i, centering, points, pick, fits,
                       SHAP_fit_feature(o, feats[i], centering, points, pick))

\* SHAPDependence.fit once its arguments are prepared
SHAP_fit_prepared(o, pc, pf, points, pick) ==
    IF pc.exc # "none"
    THEN [exc |-> pc.exc, o |-> o, fits |-> <<>>, failpos |-> 0, msg |-> <<>>]
    ELSE IF pf.exc # "none"
    THEN [exc |-> pf.exc, o |-> o, fits |-> <<>>, failpos |-> 0, msg |-> <<>>]
    ELSE SHAP_fit_loop(o, Elements(pf.val), 1, pc.val, points, pick, <<>>)

\* SHAPDependence.fit(features, centering, points_for_fitting_spline)
SHAP_fit(o, features, centering, points, pick) ==
    SHAP_fit_prepared(o, prep_centering(centering), prep_features(features, Dim(X)),
                      points, pick)

\* the condition of eval with "or" binding tighter than "and".  C3 tells this
\* variant from the code.
SHAP_eval_must_fit_or_first(o, feature, centering) ==
    /\ \/ ~o.is_fitted[feature]
       \/ o.feature_effect[feature].norm_const = EMPTY_SYMBOL
    /\ ~IsFalse(centering)

\* the condition under which SHAPDependence.eval fits first
SHAP_eval_must_fit(o, feature, centering) ==
    \/ ~o.is_fitted[feature]
    \/ /\ o.feature_effect[feature].norm_const = EMPTY_SYMBOL
       /\ ~IsFalse(centering)

\* the curve value eval returns from an effect record
SHAP_eval_value(rec, xs, centering) ==
    IF ~IsFalse(centering)
    THEN Minus(spline_mean(rec, xs), rec.norm_const)
    ELSE spline_mean(rec, xs)

\* the part of eval that follows the fit f (if any)
SHAP_eval_after(f, feature, xs, centering) ==
    IF f.exc # "none"
    THEN [exc |-> f.exc, o |-> f.o, fits |-> f.fits, ret |-> None]
    ELSE IF ~(axis_limits[1][feature + 1] < axis_limits[2][feature + 1])
    THEN [exc |-> "AssertionError", o |-> f.o, fits |-> f.fits, ret |-> None]
    ELSE IF feature \notin DOMAIN f.o.feature_effect
    THEN [exc |-> "KeyError", o |-> f.o, fits |-> f.fits, ret |-> None]
    ELSE [exc |-> "none", o |-> f.o, fits |-> f.fits,
          ret |-> SHAP_eval_value(f.o.feature_effect[feature], xs, centering)]

\* eval once centering is prepared
SHAP_eval_prepared(o, feature, xs, pc) ==
    IF pc.exc # "none"
    THEN [exc |-> pc.exc, o |-> o, fits |-> <<>>, ret |-> None]
    ELSE SHAP_eval_after(
             IF SHAP_eval_must_fit(o, feature, pc.val)
             THEN SHAP_fit(o, I(feature), pc.val, DefaultPoints, 1)
             ELSE [exc |-> "none", o |-> o, fits |-> <<>>, failpos |-> 0, msg |-> <<>>],
             feature, xs, pc.val)

\* SHAPDependence.eval(feature, xs, centering=...): [exc, o, fits, ret]
SHAP_eval(o, feature, xs, centering) ==
    SHAP_eval_prepared(o, feature, xs, prep_centering(centering))

\* SHAPDependence.plot(feature, centering=...): [exc, o, fits]
SHAP_plot(o, feature, centering) ==
    SHAP_eval(o, feature, axis_limits[1][feature + 1], centering)

\* the values of points_for_fitting_spline tried, and the draws of the subsample
PointsArgs == {DefaultPoints, SmallPoints}
Picks(points) == IF points >= NRows(X) THEN {1} ELSE 1 .. NRows(X)

SHAPFit ==
    /\ cls = "SHAPDependence"
    /\ \E f \in FeatureArgs, c \in CenteringArgs, points \in PointsArgs :
       \E pick \in Picks(points) :
         LET r == SHAP_fit(Obj, f, c, points, pick)
         IN /\ CanCall("fit", f, c, 0)
            /\ Becomes(r.o)
            /\ last' = [Called("fit", f, c, 0) EXCEPT !.exc = r.exc, !.fits = r.fits,
                                                      !.failpos = r.failpos]
    /\ UNCHANGED <<cls, X, axis_limits, model_jac, binning, ctor, ale_params>>

SHAPEval ==
    /\ cls = "SHAPDependence"
    /\ \E s \in Features, c \in CenteringArgs, x \in Vals :
         LET r == SHAP_eval(Obj, s, x, c)
         IN /\ CanCall("eval", I(s), c, x)
            /\ Becomes(r.o)
            /\ last' = [Called("eval", I(s), c, x) EXCEPT !.exc = r.exc,
                                                          !.fits = r.fits,
                                                          !.ret = r.ret]
    /\ UNCHANGED <<cls, X, axis_limits, model_jac, binning, ctor, ale_params>>

SHAPPlot ==
    /\ cls = "SHAPDependence"
    /\ \E s \in Features, c \in CenteringArgs :
         LET r == SHAP_plot(Obj, s, c)
         IN /\ CanCall("plot", I(s), c, 0)
            /\ Becomes(r.o)
            /\ last' = [Called("plot", I(s), c, 0) EXCEPT !.exc = r.exc,
                                                          !.fits = r.fits]
    /\ UNCHANGED <<cls, X, axis_limits, model_jac, binning, ctor, ale_params>>


Next ==
    \/ Forget
    \/ Refit
    \/ RHALECompile
    \/ RHALEFit
    \/ RHALEEval
    \/ RHALEPlot
    \/ SHAPFit
    \/ SHAPEval
    \/ SHAPPlot

Spec == Init /\ [][Next]_vars

-----------------------------------------------------------------------------
(* Properties *)

\* the call recorded in last was made on a feature with a well-formed centering
OnFeature(class, op) ==
    /\ cls = class
    /\ last.op = op
    /\ last.centering \in ValidCentering

\* the feature and the prepared centering of the call recorded in last
LastFeature == last.feat.v
LastCentering == prep_centering(last.centering).val

\* the limits the constructor was asked to use
RequestedLimits ==
    IF ctor.args.axis_limits.t = "NoneType"
    THEN axis_limits_from_data(X, prep_nof_instances_all(NRows(X)))
    ELSE ctor.args.axis_limits.v

\* C1: constructing an RHALE or SHAPDependence object from a 2-D dataset and a
\* model succeeds and leaves the object with the dataset as its data, the axis
\* limits supplied (or the per-feature minimum and maximum of the data), every
\* feature marked not fitted and empty method_args and feature_effect.
C1_ConstructionSucceeds ==
    ctor.state # "called" =>
        /\ ctor.exc = "none"
        /\ ctor.state = "returned"
        /\ data = prep_nof_instances_all(NRows(X))
        /\ axis_limits = RequestedLimits
        /\ is_fitted = [s \in Features |-> FALSE]
        /\ method_args = <<>>
        /\ feature_effect = <<>>

\* C2: refit(feature, centering) returns True exactly when the feature is not
\* fitted, or it is fitted and the centering is not False and differs from the
\* one recorded in method_args; it returns False otherwise and changes nothing.
C2_RefitAnswer ==
    last.op = "refit" =>
        /\ last.exc = "none"
        /\ Obj = last.pre
        /\ IsTrue(last.ret) \/ IsFalse(last.ret)
        /\ IsTrue(last.ret) <=>
              \/ ~is_fitted[LastFeature]
              \/ /\ ~IsFalse(last.centering)
                 /\ ~PyEq(method_args[LastFeature].centering, last.centering)

\* C3: SHAPDependence.eval fits the feature during the call exactly when the
\* feature was unfitted on entry, or was fitted with the empty norm constant and
\* the centering is not False.  So an eval with "zero_start" of a feature fitted
\* with centering False fits it again and stores a norm constant that is not the
\* empty one; an eval that repeats the eval before it fits nothing and leaves the
\* effect record as it was; and after an eval that returned the feature is fitted.
C3_EvalFitsWhenNeeded ==
    OnFeature("SHAPDependence", "eval") =>
        LET s == LastFeature
            pre == last.pre
        IN /\ (last.fits # <<>>) <=>
                 \/ ~pre.is_fitted[s]
                 \/ /\ pre.feature_effect[s].norm_const = EMPTY_SYMBOL
                    /\ ~IsFalse(LastCentering)
           /\ last.fits \in {<<>>, <<last.feat>>}
           /\ (/\ pre.is_fitted[s]
               /\ pre.feature_effect[s].norm_const = EMPTY_SYMBOL
               /\ LastCentering = S("zero_start"))
                 => /\ last.fits = <<last.feat>>
                    /\ feature_effect[s].norm_const # EMPTY_SYMBOL
           /\ (last.rep = 1 /\ last.prev_exc = "none")
                 => /\ last.fits = <<>>
                    /\ feature_effect[s] = pre.feature_effect[s]
           /\ last.exc = "none" => is_fitted[s]

\* an eval with "zero_start" of a feature that was fitted with centering False
\* has fitted it again and returned
C3_Witness ==
    /\ OnFeature("SHAPDependence", "eval")
    /\ last.exc = "none"
    /\ LastCentering = S("zero_start")
    /\ last.pre.is_fitted[LastFeature]
    /\ last.pre.feature_effect[LastFeature].norm_const = EMPTY_SYMBOL
    /\ last.fits = <<last.feat>>

\* C4: eval with centering "zero_start" at the lower axis limit of the feature
\* returns 0, whatever rows were used for the fit and whether the axis limits
\* were supplied or inferred.
C4_ZeroAtLowerLimit ==
    (/\ OnFeature("SHAPDependence", "eval")
     /\ last.exc = "none"
     /\ LastCentering = S("zero_start")
     /\ last.x = axis_limits[1][LastFeature + 1])
        => last.ret = Num(0)

\* C5: the local effects of RHALE are computed at most once: over any sequence
\* of compile and fit calls the Jacobian (or its numerical approximation) is
\* evaluated at most once, never when data_effect was handed to the constructor,
\* and a data_effect that is set is not replaced by a later call.
C5_DataEffectOnce ==
    /\ jac_calls <= 1
    /\ ctor.args.data_effect.t # "NoneType" => jac_calls = 0
    /\ (last.op # "none" /\ last.pre.data_effect.t # "NoneType")
          => data_effect = last.pre.data_effect

\* compile was called on an object whose local effects had been computed by an
\* earlier call
C5_Witness ==
    /\ cls = "RHALE"
    /\ last.op = "compile"
    /\ last.pre.data_effect.t # "NoneType"
    /\ ctor.args.data_effect.t = "NoneType"
    /\ jac_calls = 1

\* C6: RHALE.fit with well-formed features and any valid centering returns, and
\* then every requested feature has an effect record, is marked fitted and has
\* the prepared centering recorded in method_args (binning failures and
\* misaligned rows aside).
C6_FitEstablishes ==
    (/\ OnFeature("RHALE", "fit")
     /\ prep_features(last.feat, Dim(X)).val.t = "list"
     /\ last.msg = <<>>
     /\ last.exc # "IndexError")
        => /\ last.exc = "none"
           /\ \A e \in Range(Elements(prep_features(last.feat, Dim(X)).val)) :
                 /\ e.v \in DOMAIN feature_effect
                 /\ is_fitted[e.v]
                 /\ e.v \in DOMAIN method_args
                 /\ method_args[e.v].centering = LastCentering

\* the features of the fit recorded in last, the position at which it failed,
\* and the features before that position
FitFeatures == Elements(prep_features(last.feat, Dim(X)).val)
FitEarlier == {FitFeatures[j].v : j \in 1 .. (last.failpos - 1)}
FitLater == {FitFeatures[j].v : j \in last.failpos .. Len(FitFeatures)} \ FitEarlier

\* the entry of key k in dict d is what it was in dict e
SameEntry(d, e, k) ==
    /\ k \in DOMAIN d <=> k \in DOMAIN e
    /\ k \in DOMAIN d => d[k] = e[k]

\* C7: when binning fails for feature s during RHALE.fit of a feature list, fit
\* raises an error that names the feature and the strategy, has tried each
\* feature up to s once and none after it, leaves s and the features after it
\* with the fitted flag, effect record and method_args entry they had, and the
\* features before s are fitted.
C7_BinningFailure ==
    (/\ cls = "RHALE"
     /\ last.op = "fit"
     /\ last.exc = "AssertionError"
     /\ last.failpos > 0)
        => /\ last.msg = <<"feature", FitFeatures[last.failpos].v + 1,
                           "binning strategy", BinName(binning)>>
           /\ last.fits = SubSeq(FitFeatures, 1, last.failpos)
           /\ \A u \in FitLater :
                 /\ is_fitted[u] = last.pre.is_fitted[u]
                 /\ SameEntry(feature_effect, last.pre.feature_effect, u)
                 /\ SameEntry(method_args, last.pre.method_args, u)
           /\ \A u \in FitEarlier : is_fitted[u] /\ u \in DOMAIN feature_effect

\* fit of the list [0, 1] on an unfitted object failed at the second feature
C7_Witness ==
    /\ cls = "RHALE"
    /\ last.op = "fit"
    /\ last.exc = "AssertionError"
    /\ last.feat = L(<<I(0), I(1)>>)
    /\ last.failpos = 2
    /\ ~last.pre.is_fitted[0]
    /\ is_fitted[0]
    /\ ~is_fitted[1]

\* C8: RHALE.plot of a feature that is not fitted does not raise: it fits the
\* feature first, so that the feature is fitted and has an effect record.
C8_PlotFitsOnDemand ==
    (/\ OnFeature("RHALE", "plot")
     /\ ~last.pre.is_fitted[LastFeature])
        => /\ last.exc = "none"
           /\ is_fitted[LastFeature]
           /\ LastFeature \in DOMAIN feature_effect

\* C9: is_fitted[s] is true exactly when feature_effect has a record of s, and
\* every fitted feature has a method_args entry.
C9_FittedConsistent ==
    \A s \in Features :
        /\ is_fitted[s] <=> s \in DOMAIN feature_effect
        /\ is_fitted[s] => s \in DOMAIN method_args

\* C10: SHAPDependence.eval of a feature whose lower axis limit is not below its
\* upper one raises AssertionError before anything is fitted: the fitted flags
\* and the effect records are those on entry.
C10_LimitsCheckedFirst ==
    (/\ OnFeature("SHAPDependence", "eval")
     /\ ~(axis_limits[1][LastFeature + 1] < axis_limits[2][LastFeature + 1]))
        => /\ last.exc = "AssertionError"
           /\ last.fits = <<>>
           /\ is_fitted = last.pre.is_fitted
           /\ feature_effect = last.pre.feature_effect

\* a features argument that selects no features: neither "all", nor an index, nor
\* a list
MalformedFeatures(f) == f.t \notin {"list", "int"} /\ f # S("all")

\* C11: a malformed features or centering argument handed to RHALE.fit,
\* SHAPDependence.fit or SHAPDependence.eval is rejected before any feature is
\* processed: the call raises, _fit_feature was not called, and the fitted flags,
\* effect records, method_args and stored data are those on entry.
C11_MalformedRejectedFirst ==
    (/\ \/ last.op = "fit"
        \/ last.op = "eval" /\ cls = "SHAPDependence"
     /\ \/ MalformedFeatures(last.feat)
        \/ last.centering \notin ValidCentering)
        => /\ last.exc # "none"
           /\ last.fits = <<>>
           /\ Obj = last.pre

-----------------------------------------------------------------------------
(* The legacy ALE class of feature_effect/ale.py *)

\* a dict value
Dict(d) == [t |-> "dict", v |-> d]

\* the defaults of compute_ale_parameters
DefaultK == 30
DefaultMinPoints == 10

\* the alg_params arguments tried: the keys compute_ale_parameters reads
AlgParamArgs ==
    { [nof_bins |-> k, min_points_per_bin |-> m] :
        k \in {Missing, I(MaxVal)}, m \in {Missing, I(1)} }

\* compute_ale_parameters(data, model, feature, alg_params): [exc, ret]
compute_ale_parameters(feature, alg_params) ==
    IF ~(feature.t = "int" /\ feature.v \in 0 .. (Dim(X) - 1))
    THEN \* data[:, feature]
         [exc |-> "IndexError", ret |-> <<>>]
    ELSE [exc |-> "none",
          ret |-> [feature |-> feature.v,
                   nof_bins |-> IF alg_params.nof_bins = Missing
                                THEN DefaultK ELSE alg_params.nof_bins.v,
                   min_points_per_bin |-> IF alg_params.min_points_per_bin = Missing
                                          THEN DefaultMinPoints
                                          ELSE alg_params.min_points_per_bin.v,
                   method |-> "fixed-size"]]

\* a function built from the default bin count instead of the one in params
ale_func_unbound(params) == [params |-> [params EXCEPT !.nof_bins = DefaultK]]

\* ALE._ale_func(params): the function that closes over params
ale_func(params) == [params |-> params]

\* ale_function(x) of a function built by _ale_func
ale_function(func, x) == [t |-> "ale_function", v |-> [params |-> func.params, x |-> x]]

\* the fields of an ALE object that fit assigns
ALEObj == [feature_effect |-> feature_effect, ale_params |-> ale_params]

\* the loop of ALE.fit from position i on, with the local dicts funcs and
\* ale_params: [exc, funcs, ale_params, fits]
RECURSIVE ALE_fit_loop(_, _, _, _, _, _)
ALE_fit_loop(feats, i, alg_params, funcs, params, fits) ==
    IF i > Len(feats)
    THEN [exc |-> "none", funcs |-> funcs, ale_params |-> params, fits |-> fits]
    ELSE LET r == compute_ale_parameters(feats[i], alg_params)
         IN IF r.exc # "none"
            THEN [exc |-> r.exc, funcs |-> funcs, ale_params |-> params,
                  fits |-> Append(fits, feats[i])]
            ELSE ALE_fit_loop(feats, i + 1, alg_params,
                              Put(funcs, feats[i].v, ale_func(r.ret)),
                              Put(params, feats[i].v, r.ret),
                              Append(fits, feats[i]))

\* fit adding the dicts it built to the stored ones instead of replacing them
ALE_fit_merging(o, r) ==
    IF r.exc # "none"
    THEN [exc |-> r.exc, o |-> o, fits |-> r.fits]
    ELSE [exc |-> "none",
          o |-> [feature_effect |->
                     IF o.feature_effect.t = "dict"
                     THEN Dict([k \in DOMAIN o.feature_effect.v \cup DOMAIN r.funcs |->
                                  IF k \in DOMAIN r.funcs THEN r.funcs[k]
                                  ELSE o.feature_effect.v[k]])
                     ELSE Dict(r.funcs),
                 ale_params |->
                     IF o.ale_params.t = "dict"
                     THEN Dict([k \in DOMAIN o.ale_params.v \cup DOMAIN r.ale_params |->
                                  IF k \in DOMAIN r.ale_params THEN r.ale_params[k]
                                  ELSE o.ale_params.v[k]])
                     ELSE Dict(r.ale_params)],
          fits |-> r.fits]

\* what fit stores from the dicts it built, o being the object on entry
ALE_fit_store(o, r) ==
    IF r.exc # "none"
    THEN [exc |-> r.exc, o |-> o, fits |-> r.fits]
    ELSE [exc |-> "none",
          o |-> [feature_effect |-> Dict(r.funcs), ale_params |-> Dict(r.ale_params)],
          fits |-> r.fits]

\* fit storing each feature's function and parameters as soon as they are
\* computed, so that a failure leaves the features computed before it stored
ALE_fit_incremental(o, features, alg_params) ==
    IF ~(features = S("all") \/ features.t = "list")
    THEN [exc |-> "AssertionError", o |-> o, fits |-> <<>>]
    ELSE LET r == ALE_fit_loop(IF features = S("all")
                               THEN [i \in 1..Dim(X) |-> I(i - 1)]
                               ELSE features.v,
                               1, alg_params, <<>>, <<>>, <<>>)
         IN [exc |-> r.exc,
             o |-> [feature_effect |-> Dict(r.funcs), ale_params |-> Dict(r.ale_params)],
             fits |-> r.fits]

\* ALE.fit(features, alg_params): [exc, o, fits]
ALE_fit(o, features, alg_params) ==
    IF ~(features = S("all") \/ features.t = "list")
    THEN [exc |-> "AssertionError", o |-> o, fits |-> <<>>]
    ELSE ALE_fit_store(o, ALE_fit_loop(IF features = S("all")
                                       THEN [i \in 1..Dim(X) |-> I(i - 1)]
                                       ELSE features.v,
                                       1, alg_params, <<>>, <<>>, <<>>))

\* ALE.eval(x, s): [exc, ret]
ALE_eval(o, x, s) ==
    IF o.feature_effect.t # "dict"
    THEN \* None is not subscriptable
         [exc |-> "TypeError", ret |-> None]
    ELSE IF s \notin DOMAIN o.feature_effect.v
    THEN [exc |-> "KeyError", ret |-> None]
    ELSE [exc |-> "none", ret |-> ale_function(o.feature_effect.v[s], x)]

\* ALE.plot(s): [exc]
ALE_plot(o, s) ==
    IF o.ale_params.t # "dict"
    THEN \* __init__ assigns self.parameters, not self.ale_params
         [exc |-> "AttributeError"]
    ELSE IF s \notin DOMAIN o.ale_params.v
    THEN [exc |-> "KeyError"]
    ELSE [exc |-> ALE_eval(o, 0, s).exc]

\* the features arguments tried on an ALE object: as for the other classes, and
\* lists that name a column the data does not have
ALEColumns == 0 .. Dim(X)
ALEFeatureArgs ==
    {S("all"), S("bogus"), None, I(0)}
    \cup {L(l) : l \in SeqsUpTo({I(s) : s \in ALEColumns}, MaxFeatLen)}

\* ALE(data, model)
InitALE ==
    /\ cls = "ALE"
    /\ X \in Datasets
    /\ data = prep_nof_instances_all(NRows(X))
    /\ axis_limits = Unset /\ model_jac = Unset /\ binning = Unset
    /\ is_fitted = Unset /\ method_args = Unset
    /\ jac_calls = 0
    /\ data_effect = None
    /\ feature_effect = None
    /\ ale_params = Missing
    /\ ctor = [args |-> [cls |-> "ALE", data |-> Arr(X), model |-> Fn],
               state |-> "returned", exc |-> "none", obj |-> NoObject]
    /\ last = NoCall

\* the record of a call made now on an ALE object
ALECalled(op, f, x) ==
    [NoCall EXCEPT !.op = op, !.feat = f, !.x = x,
                   !.rep = IF last.op = "none" THEN 0 ELSE 1,
                   !.prev_exc = last.exc,
                   !.pre = ALEObj]

ALEFit ==
    /\ cls = "ALE"
    /\ \E f \in ALEFeatureArgs, ap \in AlgParamArgs :
         LET r == ALE_fit(ALEObj, f, ap)
         IN /\ CanCall("fit", f, None, 0)
            /\ feature_effect' = r.o.feature_effect
            /\ ale_params' = r.o.ale_params
            /\ last' = [ALECalled("fit", f, 0) EXCEPT !.exc = r.exc, !.fits = r.fits,
                                                     !.msg = ap]
    /\ UNCHANGED <<cls, X, data, axis_limits, model_jac, data_effect, jac_calls,
                   is_fitted, method_args, binning, ctor>>

ALEEval ==
    /\ cls = "ALE"
    /\ \E s \in ALEColumns, x \in Vals :
         LET r == ALE_eval(ALEObj, x, s)
         IN /\ CanCall("eval", I(s), None, x)
            /\ last' = [ALECalled("eval", I(s), x) EXCEPT !.exc = r.exc, !.ret = r.ret]
    /\ UNCHANGED <<cls, X, data, axis_limits, model_jac, data_effect, jac_calls,
                   is_fitted, method_args, feature_effect, binning, ctor, ale_params>>

ALEPlot ==
    /\ cls = "ALE"
    /\ \E s \in ALEColumns :
         LET r == ALE_plot(ALEObj, s)
         IN /\ CanCall("plot", I(s), None, 0)
            /\ last' = [ALECalled("plot", I(s), 0) EXCEPT !.exc = r.exc]
    /\ UNCHANGED <<cls, X, data, axis_limits, model_jac, data_effect, jac_calls,
                   is_fitted, method_args, feature_effect, binning, ctor, ale_params>>

NextALE ==
    \/ Forget
    \/ ALEFit
    \/ ALEEval
    \/ ALEPlot

SpecALE == InitALE /\ [][NextALE]_vars

\* the features a fit call was asked for
ALERequested ==
    IF last.feat = S("all") THEN 0 .. (Dim(X) - 1)
    ELSE {last.feat.v[j].v : j \in DOMAIN last.feat.v}

\* C12: legacy ALE.fit overwrites: after a fit that returned, the stored function
\* map and the stored parameter map hold exactly the features of that call,
\* whatever an earlier fit had stored; and eval of a feature the function map
\* does not hold fails with KeyError.
C12_FitOverwrites ==
    /\ (cls = "ALE" /\ last.op = "fit" /\ last.exc = "none")
          => /\ DOMAIN feature_effect.v = ALERequested
             /\ DOMAIN ale_params.v = ALERequested
    /\ (/\ cls = "ALE" /\ last.op = "eval"
        /\ feature_effect.t = "dict"
        /\ last.feat.v \notin DOMAIN feature_effect.v)
          => last.exc = "KeyError"

\* a fit returned on an object that held feature 0 from an earlier fit, and
\* feature 0 is gone
C12_Witness ==
    /\ cls = "ALE" /\ last.op = "fit" /\ last.exc = "none"
    /\ last.pre.feature_effect.t = "dict"
    /\ 0 \in DOMAIN last.pre.feature_effect.v
    /\ 0 \notin DOMAIN feature_effect.v
    /\ 1 \in DOMAIN feature_effect.v

-----------------------------------------------------------------------------
(* The helper functions of pythia/helpers.py, applied to arguments *)

\* the keys of the parameter dicts of the legacy fitting API; a dict is a record
\* over these keys, Missing at the keys it does not hold
EmptyPar ==
    [bin_method |-> Missing, nof_bins |-> Missing, max_nof_bins |-> Missing,
     min_points_per_bin |-> Missing]

\* the defaults prep_dale_fit_params and prep_ale_fit_params fill in
DefaultNofBins == 100
DefaultMaxNofBins == 20

\* "key" in par.keys()
Has(par, key) == par[key].t # "missing"

\* the assert made when min_points_per_bin is among the keys, on its own value
min_points_per_bin_assert_own(par) == par.min_points_per_bin.t = "int"

\* the assert made when min_points_per_bin is among the keys
min_points_per_bin_assert(par) == par.max_nof_bins.t = "int"

\* prep_dale_fit_params from the bin_method check on, par being a dict
prep_dale_checks(par) ==
    IF Has(par, "bin_method") /\ par.bin_method \notin {S("fixed"), S("greedy"), S("dp")}
    THEN [exc |-> "AssertionError", ret |-> None]
    ELSE IF Has(par, "nof_bins") /\ par.nof_bins.t # "int"
    THEN [exc |-> "AssertionError", ret |-> None]
    ELSE IF Has(par, "max_nof_bins") /\ par.max_nof_bins.t # "int"
    THEN [exc |-> "AssertionError", ret |-> None]
    ELSE IF Has(par, "min_points_per_bin")
            /\ ~min_points_per_bin_assert(
                  [par EXCEPT !.max_nof_bins = IF Has(par, "max_nof_bins")
                                               THEN @ ELSE I(DefaultMaxNofBins)])
    THEN [exc |-> "AssertionError", ret |-> None]
    ELSE [exc |-> "none",
          ret |-> Dict([bin_method |-> IF Has(par, "bin_method")
                                       THEN par.bin_method ELSE S("fixed"),
                        nof_bins |-> IF Has(par, "nof_bins")
                                     THEN par.nof_bins ELSE I(DefaultNofBins),
                        max_nof_bins |-> IF Has(par, "max_nof_bins")
                                         THEN par.max_nof_bins ELSE I(DefaultMaxNofBins),
                        min_points_per_bin |-> IF Has(par, "min_points_per_bin")
                                               THEN par.min_points_per_bin ELSE None])]

\* helpers.prep_dale_fit_params(par): [exc, ret]
prep_dale_fit_params(par) ==
    IF par.t = "NoneType" THEN prep_dale_checks(EmptyPar)
    ELSE IF par.t # "dict"
    THEN \* par.keys()
         [exc |-> "AttributeError", ret |-> None]
    ELSE prep_dale_checks(par.v)

\* helpers.prep_ale_fit_params(par): [exc, ret]
prep_ale_fit_params(par) ==
    IF par.t # "dict"
    THEN \* par.keys()
         [exc |-> "AttributeError", ret |-> None]
    ELSE IF Has(par.v, "nof_bins") /\ par.v.nof_bins.t # "int"
    THEN [exc |-> "AssertionError", ret |-> None]
    ELSE [exc |-> "none",
          ret |-> Dict([par.v EXCEPT !.nof_bins = IF Has(par.v, "nof_bins")
                                                  THEN @ ELSE I(DefaultNofBins)])]

\* the arguments the helpers are applied to
HelperFeatureArgs ==
    {S("all"), S("bogus"), None, PyTrue}
    \cup {I(s) : s \in Vals}
    \cup {L(l) : l \in SeqsUpTo({I(s) : s \in Vals}, MaxFeatLen)}
HelperDims == 1 .. (MaxVal + 1)
HelperCenteringArgs ==
    CenteringArgs \cup {S("all"), None, I(0), I(1), L(<<>>)}
ParArgs ==
    {None} \cup
    { Dict([bin_method |-> bm, nof_bins |-> nb, max_nof_bins |-> mb,
            min_points_per_bin |-> mp]) :
        bm \in {Missing, S("fixed"), S("greedy"), S("dp"), S("bogus")},
        nb \in {Missing, I(MaxVal), S("many")},
        mb \in {Missing, I(MaxVal + 1), S("many")},
        mp \in {Missing, I(1), S("many"), None} }

\* a helper call: the function, its argument (and D), how often it has been
\* applied (the second time to its own result), what the last application raised
\* and returned, and what the first application returned
HelperCall(fn, arg, D) ==
    [fn |-> fn, arg |-> arg, D |-> D, times |-> 0, exc |-> "none", ret |-> None,
     first |-> None]

\* the argument of the next application, if one is made
NextArg == IF last.times = 0 THEN last.arg ELSE last.ret
CanApply(fn) ==
    /\ cls = "helpers"
    /\ last.fn = fn
    /\ last.times = 0 \/ (last.times = 1 /\ last.exc = "none")

Applied(r) ==
    /\ last' = [last EXCEPT !.times = @ + 1, !.exc = r.exc,
                            !.ret = IF r.exc = "none" THEN r.ret ELSE None,
                            !.first = last.ret]
    /\ UNCHANGED <<cls, X, data, axis_limits, model_jac, data_effect, jac_calls,
                   is_fitted, method_args, feature_effect, binning, ctor, ale_params>>

InitHelpers ==
    /\ cls = "helpers"
    /\ X = Unset /\ data = Unset /\ axis_limits = Unset /\ model_jac = Unset
    /\ data_effect = Unset /\ is_fitted = Unset /\ method_args = Unset
    /\ feature_effect = Unset /\ binning = Unset /\ ctor = Unset
    /\ jac_calls = 0
    /\ ale_params = Missing
    /\ \/ \E f \in HelperFeatureArgs, D \in HelperDims :
            last = HelperCall("prep_features", f, D)
       \/ \E c \in HelperCenteringArgs : last = HelperCall("prep_centering", c, 0)
       \/ \E par \in ParArgs : last = HelperCall("prep_dale_fit_params", par, 0)
       \/ \E par \in ParArgs : last = HelperCall("prep_ale_fit_params", par, 0)

PrepFeatures ==
    /\ CanApply("prep_features")
    /\ LET r == prep_features(NextArg, last.D)
       IN Applied([exc |-> r.exc, ret |-> r.val])

PrepCentering ==
    /\ CanApply("prep_centering")
    /\ LET r == prep_centering(NextArg)
       IN Applied([exc |-> r.exc, ret |-> r.val])

PrepDaleFitParams ==
    /\ CanApply("prep_dale_fit_params")
    /\ Applied(prep_dale_fit_params(NextArg))

PrepAleFitParams ==
    /\ CanApply("prep_ale_fit_params")
    /\ Applied(prep_ale_fit_params(NextArg))

NextHelpers ==
    \/ PrepFeatures
    \/ PrepCentering
    \/ PrepDaleFitParams
    \/ PrepAleFitParams

SpecHelpers == InitHelpers /\ [][NextHelpers]_vars

\* the helper fn has been applied once to the argument
AppliedOnce(fn) == cls = "helpers" /\ last.fn = fn /\ last.times = 1

\* the helper fn has been applied to its own result
AppliedTwice(fn) == cls = "helpers" /\ last.fn = fn /\ last.times = 2

\* C13: prep_features(feat, D) returns [0, ..., D-1] for "all", [feat] for an
\* integer and the list itself for a list; an argument of any other type fails
\* with AssertionError.
C13_PrepFeatures ==
    AppliedOnce("prep_features") =>
        /\ last.arg.t = "str" /\ last.arg.v = "all"
             => /\ last.exc = "none"
                /\ PyEq(last.ret, L([i \in 1 .. last.D |-> I(i - 1)]))
        /\ last.arg.t = "int"
             => last.exc = "none" /\ PyEq(last.ret, L(<<last.arg>>))
        /\ last.arg.t = "list"
             => last.exc = "none" /\ PyEq(last.ret, last.arg)
        /\ last.arg.t \notin {"list", "str", "int"}
             => last.exc = "AssertionError"

\* prep_features has wrapped an integer into a list
C13_Witness ==
    /\ AppliedOnce("prep_features")
    /\ last.arg = I(MaxVal)
    /\ last.ret = L(<<I(MaxVal)>>)

\* C14: prep_centering maps True to "zero_integral", returns False, "zero_start"
\* and "zero_integral" unchanged and fails for every other argument; so what it
\* returns is one of False, "zero_integral", "zero_start", and applying it to its
\* own result returns that result.
C14_PrepCentering ==
    /\ AppliedOnce("prep_centering") =>
          /\ IsTrue(last.arg)
               => last.exc = "none" /\ PyEq(last.ret, S("zero_integral"))
          /\ last.arg \in {PyFalse, S("zero_start"), S("zero_integral")}
               => last.exc = "none" /\ PyEq(last.ret, last.arg)
          /\ last.arg \notin ValidCentering => last.exc = "AssertionError"
          /\ last.exc = "none"
               => last.ret \in {PyFalse, S("zero_integral"), S("zero_start")}
    /\ AppliedTwice("prep_centering") =>
          last.exc = "none" /\ PyEq(last.ret, last.first)

\* prep_centering was applied to True and then to the "zero_integral" returned
C14_Witness ==
    /\ AppliedTwice("prep_centering")
    /\ IsTrue(last.arg)
    /\ last.first = S("zero_integral")
    /\ last.ret = S("zero_integral")

\* the keys of a parameter dict
ParKeys == {"bin_method", "nof_bins", "max_nof_bins", "min_points_per_bin"}

\* the default prep_dale_fit_params fills in at a key
DaleDefault(key) ==
    CASE key = "bin_method" -> S("fixed")
      [] key = "nof_bins" -> I(DefaultNofBins)
      [] key = "max_nof_bins" -> I(DefaultMaxNofBins)
      [] key = "min_points_per_bin" -> None

\* the dict handed to the first application (None stands for the empty dict)
FirstPar == IF last.arg.t = "dict" THEN last.arg.v ELSE EmptyPar

\* C15: the dict prep_dale_fit_params returns holds every key the caller supplied
\* with its value and every other key with its default ("fixed", 100, 20, None),
\* None counting as the empty dict; applied to that dict again it returns the
\* same dict without error.
C15_DaleDefaults ==
    /\ (AppliedOnce("prep_dale_fit_params") /\ last.exc = "none") =>
          /\ last.ret.t = "dict"
          /\ \A k \in ParKeys :
                PyEq(last.ret.v[k], IF Has(FirstPar, k) THEN FirstPar[k] ELSE DaleDefault(k))
    /\ AppliedTwice("prep_dale_fit_params") =>
          /\ last.exc = "none"
          /\ last.ret.t = "dict"
          /\ \A k \in ParKeys : PyEq(last.ret.v[k], last.first.v[k])

\* prep_dale_fit_params was applied to a dict without min_points_per_bin and then
\* to the dict returned, which holds None at that key
C15_Witness ==
    /\ AppliedTwice("prep_dale_fit_params")
    /\ last.arg.t = "dict"
    /\ ~Has(last.arg.v, "min_points_per_bin")
    /\ Has(last.arg.v, "nof_bins")
    /\ last.first.v.min_points_per_bin.t = "NoneType"
    /\ last.exc = "none"

\* C16: prep_dale_fit_params raises AssertionError when a supplied bin_method is
\* none of "fixed", "greedy", "dp" or a supplied nof_bins, max_nof_bins or
\* min_points_per_bin is not an integer; prep_ale_fit_params raises it when a
\* supplied nof_bins is not an integer.
C16_WrongTypesRejected ==
    /\ (/\ AppliedOnce("prep_dale_fit_params")
        /\ last.arg.t = "dict"
        /\ \/ Has(last.arg.v, "bin_method")
              /\ last.arg.v.bin_method \notin {S("fixed"), S("greedy"), S("dp")}
           \/ \E k \in {"nof_bins", "max_nof_bins", "min_points_per_bin"} :
                 Has(last.arg.v, k) /\ last.arg.v[k].t # "int")
          => last.exc = "AssertionError"
    /\ (/\ AppliedOnce("prep_ale_fit_params")
        /\ last.arg.t = "dict"
        /\ Has(last.arg.v, "nof_bins")
        /\ last.arg.v.nof_bins.t # "int")
          => last.exc = "AssertionError"

\* the rows of the dataset handed to the constructor whose value of feature s
\* lies within the axis limits of s
RowsWithinLimits(s) ==
    SelectRows(X, prep_nof_instances_all(NRows(X)), s,
               axis_limits[1][s + 1], axis_limits[2][s + 1])

\* C17: RHALE.fit of feature s computes the effect of s from exactly the rows of
\* the construction-time dataset whose value of s lies within the axis limits of
\* s, whatever was fitted before.
C17_RowsOfFeature ==
    (/\ cls = "RHALE" /\ last.op = "fit"
     /\ last.feat.t = "int"
     /\ IsFalse(last.centering)
     /\ last.msg = <<>>)
        => /\ last.exc = "none"
           /\ feature_effect[LastFeature].rows = RowsWithinLimits(LastFeature)
           /\ feature_effect[LastFeature].effect_rows = RowsWithinLimits(LastFeature)

\* C19: in RHALE the stored data and the stored local effects have the same
\* number of rows, and row i of the effects is the local effect of row i of the
\* data, after any sequence of fit calls.
C19_EffectsAligned ==
    (cls = "RHALE" /\ data_effect.t = "ndarray")
        => /\ Len(data_effect.v) = Len(data)
           /\ data_effect.v = data

\* C20: a SHAPDependence eval with centering "zero_integral" or "zero_start"
\* that returns has subtracted the norm constant of that mode: the effect record
\* holds the constant _fit_feature computes for the requested mode.
C20_ConstantOfMode ==
    (/\ OnFeature("SHAPDependence", "eval")
     /\ last.exc = "none"
     /\ ~IsFalse(LastCentering))
        => feature_effect[LastFeature].norm_const =
              SHAP_norm_const(feature_effect[LastFeature],
                              feature_effect[LastFeature].xx, LastCentering)

\* C18: after a legacy ALE.fit that returned, the function map and the parameter
\* map hold the same features, those of that call, and the function stored for
\* a feature evaluates with the parameters stored for it: eval(x, s) returns
\* ale_function(x) of those parameters.  eval or plot on an object no fit has
\* returned on raises.
C18_MapsAgree ==
    cls = "ALE" =>
        /\ feature_effect.t = "dict" <=> ale_params.t = "dict"
        /\ feature_effect.t = "dict" =>
              /\ DOMAIN feature_effect.v = DOMAIN ale_params.v
              /\ \A s \in DOMAIN feature_effect.v :
                    feature_effect.v[s].params = ale_params.v[s]
        /\ (last.op = "fit" /\ last.exc = "none") =>
              DOMAIN feature_effect.v = ALERequested
        /\ (last.op = "eval" /\ last.exc = "none") =>
              last.ret = ale_function([params |-> ale_params.v[last.feat.v]], last.x)
        /\ (last.op \in {"eval", "plot"} /\ feature_effect.t # "dict") =>
              last.exc # "none"

\* eval returned a value for a feature fitted with parameters that are not the
\* defaults
C18_Witness ==
    /\ cls = "ALE" /\ last.op = "eval" /\ last.exc = "none"
    /\ ale_params.v[last.feat.v].nof_bins # DefaultK
    /\ last.ret.v.params = ale_params.v[last.feat.v]

-----------------------------------------------------------------------------
(* refit after a centred RHALE fit, failed legacy fits, and the values
   prep_features returns *)

\* C21: after RHALE.fit(s, centering) with centering True or "zero_integral"
\* (feature in range, binning succeeding), refit(s, True) and
\* refit(s, "zero_integral") both return False.
C21_RefitSameMode ==
    (/\ cls = "RHALE" /\ last.op = "fit"
     /\ last.feat.t = "int"
     /\ last.centering \in {PyTrue, S("zero_integral")}
     /\ last.msg = <<>>
     /\ last.exc # "IndexError"
     /\ LastFeature \in DOMAIN is_fitted)
        => /\ refit(Obj, LastFeature, PyTrue).exc = "none"
           /\ IsFalse(refit(Obj, LastFeature, PyTrue).ret)
           /\ refit(Obj, LastFeature, S("zero_integral")).exc = "none"
           /\ IsFalse(refit(Obj, LastFeature, S("zero_integral")).ret)

\* C22: a legacy ALE.fit that raised left the stored function map and the
\* stored parameter map exactly as they were before the call.
C22_FitAllOrNothing ==
    (cls = "ALE" /\ last.op = "fit" /\ last.exc # "none")
        => /\ PyEq(feature_effect, last.pre.feature_effect)
           /\ PyEq(ale_params, last.pre.ale_params)

\* a fit of two features raised at the second one, after the parameters of
\* the first had been computed, on an object holding the maps of an earlier
\* fit that do not hold the first feature
C22_Witness ==
    /\ cls = "ALE" /\ last.op = "fit" /\ last.exc = "IndexError"
    /\ Len(last.fits) = 2
    /\ last.pre.feature_effect.t = "dict"
    /\ last.fits[1].v \notin DOMAIN last.pre.feature_effect.v
    /\ feature_effect.t = "dict"
    /\ last.fits[1].v \notin DOMAIN feature_effect.v

\* C23: every value prep_features(feat, D) returns without raising is a list
\* of feature indices, integers in 0 .. D-1; a string is never returned.
C23_ReturnsIndexList ==
    (AppliedOnce("prep_features") /\ last.exc = "none")
        => /\ last.ret.t # "str"
           /\ last.ret.t = "list"
           /\ \A i \in DOMAIN last.ret.v :
                 /\ last.ret.v[i].t = "int"
                 /\ last.ret.v[i].v \in 0 .. (last.D - 1)

====
